---- MODULE Spec2Model ----
(***************************************************************************)
(* Model of the lofi composition engine (Producer) and of its render       *)
(* scheduler (Creator / AudioGenerator).                                   *)
(*                                                                         *)
(* Units.  Musical time is counted in sixteenth notes: one measure is 16,  *)
(* one beat 4.  Tone.js time strings "m:b" and "m:b:s" are m*16 + b*4 + s. *)
(* energy, valence and swing are counted in tenths (0.3 is 3).  Pitches    *)
(* are MIDI numbers, pitch classes are chroma 0..11.                       *)
(***************************************************************************)
EXTENDS Integers, Sequences, FiniteSets, TLC

(***************************************************************************)
(* Bounds of the model                                                     *)
(***************************************************************************)
MaxCalls == 2

(***************************************************************************)
(* helper.ts                                                               *)
(***************************************************************************)
\* x - Math.floor(x) for x = Math.sin(seed) * 10000, in thousandths, for the
\* seeds 0.0, 0.1, ... 52.0 (entry s+1 is the seed s tenths)
SinFrac ==
   << 
      0, 334, 693, 202, 183, 255, 424, 176, 560, 269, 709, 73, 390, 581, 497, 949, 736, 648, 476, 0,
      974, 93, 964, 52, 631, 721, 13, 798, 881, 493, 200, 806, 258, 543, 588, 167, 795, 638, 421, 338,
      975, 228, 242, 340, 979, 698, 89, 767, 353, 473, 757, 853, 453, 325, 355, 596, 333, 144, 978, 233,
      845, 374, 105, 139, 492, 199, 413, 499, 133, 397, 865, 690, 678, 366, 80, 999, 196, 682, 433, 413,
      582, 898, 305, 718, 989, 871, 970, 692, 171, 208, 184, 983, 899, 544, 754, 488, 732, 393, 208, 641,
      788, 293, 253, 141, 735, 42, 245, 649, 637, 637, 97, 474, 222, 807, 714, 478, 714, 164, 749, 628,
      270, 525, 707, 682, 958, 781, 230, 320, 98, 744, 670, 614, 735, 697, 758, 844, 618, 547, 956, 75,
      73, 93, 266, 719, 577, 950, 911, 468, 520, 813, 878, 968, 986, 405, 183, 674, 536, 631, 931, 414,
      966, 285, 780, 477, 933, 146, 479, 582, 329, 759, 25, 349, 999, 255, 406, 739, 555, 175, 978, 428,
      127, 862, 671, 914, 343, 193, 263, 9, 643, 226, 772, 342, 149, 653, 657, 398, 636, 734, 737, 441,
      452, 245, 205, 664, 929, 297, 66, 527, 952, 575, 556, 941, 612, 225, 150, 390, 504, 526, 866, 224,
      486, 634, 635, 353, 443, 254, 743, 376, 52, 17, 795, 126, 900, 118, 844, 179, 240, 144, 15, 985,
      216, 929, 442, 214, 901, 424, 34, 390, 648, 542, 482, 646, 80, 800, 885, 583, 405, 221, 350, 646,
      584, 330, 810, 776, 850, 576, 447, 937, 511, 632, 759, 328, 730, 279, 163, 400, 771, 756, 459, 526,
      57, 521, 654, 367, 643, 443, 600, 724, 106, 626, 661, 3, 785, 402, 453, 685, 942, 129, 181, 49,
      683, 38, 82, 817, 309, 727, 392, 832, 849, 590, 623, 27, 474, 329, 741, 744, 357, 681, 2, 884,
      266, 552, 694, 278, 594, 704, 500, 758, 178, 419, 118, 910, 425, 287, 96, 400, 662, 216, 211, 551,
      826, 238, 513, 823, 685, 874, 319, 7, 884, 751, 173, 377, 165, 821, 33, 812, 425, 333, 131, 509,
      211, 8, 682, 16, 797, 831, 958, 92, 254, 629, 618, 907, 540, 998, 283, 12, 503, 881, 170, 397,
      685, 362, 47, 752, 967, 745, 786, 505, 98, 605, 953, 2, 574, 472, 499, 454, 125, 274, 606, 734,
      131, 79, 603, 401, 767, 511, 868, 406, 932, 392, 773, 3, 851, 832, 108, 398, 893, 172, 126, 891,
      784, 253, 830, 97, 661, 134, 134, 280, 213, 618, 252, 995, 893, 224, 560, 844, 472, 373, 108, 957,
      19, 312, 872, 851, 618, 853, 640, 559, 767, 78, 35, 972, 74, 424, 40, 908, 0, 286, 731, 289,
      883, 373, 521, 939, 40, 965, 520, 90, 565, 240, 731, 875, 632, 987, 847, 946, 745, 338, 363, 912,
      453, 756, 822, 827, 66, 915, 793, 141, 403, 29, 473, 213, 774, 764, 918, 150, 612, 767, 460, 0,
      251, 717, 643, 106, 122, 737, 134, 728, 259, 890, 291, 726, 124, 159, 304, 891, 157, 284, 419, 704,
      275
   >>

random(seed) == SinFrac[seed + 1]

randomFromInterval(min, max, seed) == ((random(seed) * (max - min + 1)) \div 1000) + min

randomColor(seed) == (random(seed) * 360) \div 1000

KeyNames == << "C", "C#", "D", "D#", "E", "F", "F#", "G", "G#", "A", "A#", "B" >>

keyNumberToString(key) == IF key \in 1..12 THEN KeyNames[key] ELSE "C"

\* the JavaScript remainder keeps the sign of the dividend
JsRem(a, n) == IF a >= 0 THEN a % n ELSE -((-a) % n)

\* Math.floor(a / n)
FloorDiv(a, n) == a \div n

mapNote(note) == << JsRem(note, 7), FloorDiv(note, 7) >>

\* the value parseFloat yields for "[object Object]"
NaN == -999999

addTime(time1, time2) == IF time1 = NaN \/ time2 = NaN THEN NaN ELSE time1 + time2

subtractTime(time1, time2) == IF time1 = NaN \/ time2 = NaN THEN NaN ELSE time1 - time2

\* a note that is undefined has no midi number: null + 12 * octaves
octShift(note, octaves) == IF note = NaN THEN 12 * octaves ELSE note + 12 * octaves

octShiftAll(notes, octaves) == [i \in 1..Len(notes) |-> octShift(notes[i], octaves)]

(***************************************************************************)
(* The Tonal library as the producer uses it                               *)
(***************************************************************************)
ModeNames == << "ionian", "dorian", "phrygian", "lydian", "mixolydian", "aeolian", "locrian" >>

\* Tonal.Mode.names()[mode - 1]; out of range the array yields undefined
modeNumberToString(mode) == IF mode \in 1..7 THEN ModeNames[mode] ELSE "undefined"

NoteNames ==
  { "C", "C#", "Db", "D", "D#", "Eb", "E", "F", "F#", "Gb", "G", "G#", "Ab", "A", "A#", "Bb", "B" }

Chroma(n) ==
  CASE n = "C" -> 0 [] n = "C#" -> 1 [] n = "Db" -> 1 [] n = "D" -> 2 [] n = "D#" -> 3
    [] n = "Eb" -> 3 [] n = "E" -> 4 [] n = "F" -> 5 [] n = "F#" -> 6 [] n = "Gb" -> 6
    [] n = "G" -> 7 [] n = "G#" -> 8 [] n = "Ab" -> 8 [] n = "A" -> 9 [] n = "A#" -> 10
    [] n = "Bb" -> 10 [] n = "B" -> 11

\* Tonal.Note.enharmonic: sharps are respelled with flats, flats with sharps
Enharmonic(n) ==
  CASE n = "C#" -> "Db" [] n = "D#" -> "Eb" [] n = "F#" -> "Gb" [] n = "G#" -> "Ab"
    [] n = "A#" -> "Bb" [] n = "Db" -> "C#" [] n = "Eb" -> "D#" [] n = "Gb" -> "F#"
    [] n = "Ab" -> "G#" [] n = "Bb" -> "A#" [] OTHER -> n

\* Tonal.Key.majorKey(n).keySignature.length
MajorKeySignatureLength(n) ==
  CASE n = "C" -> 0 [] n = "G" -> 1 [] n = "D" -> 2 [] n = "A" -> 3 [] n = "E" -> 4
    [] n = "B" -> 5 [] n = "F#" -> 6 [] n = "C#" -> 7 [] n = "G#" -> 8 [] n = "D#" -> 9
    [] n = "A#" -> 10 [] n = "F" -> 1 [] n = "Bb" -> 2 [] n = "Eb" -> 3 [] n = "Ab" -> 4
    [] n = "Db" -> 5 [] n = "Gb" -> 6

\* Tonal.Key.minorKey(n).keySignature.length
MinorKeySignatureLength(n) ==
  CASE n = "A" -> 0 [] n = "E" -> 1 [] n = "B" -> 2 [] n = "F#" -> 3 [] n = "C#" -> 4
    [] n = "G#" -> 5 [] n = "D#" -> 6 [] n = "A#" -> 7 [] n = "D" -> 1 [] n = "G" -> 2
    [] n = "C" -> 3 [] n = "F" -> 4 [] n = "Bb" -> 5 [] n = "Eb" -> 6 [] n = "Ab" -> 7
    [] n = "Db" -> 8 [] n = "Gb" -> 9

IonianIntervals == << 0, 2, 4, 5, 7, 9, 11 >>

IonianTriads == << "M", "m", "m", "M", "M", "m", "dim" >>

\* position of a mode in the rotation of the diatonic scale; major and minor
\* are Tonal's aliases of ionian and aeolian
ModeIndex(mode) ==
  CASE mode = "ionian" -> 0 [] mode = "major" -> 0 [] mode = "dorian" -> 1
    [] mode = "phrygian" -> 2 [] mode = "lydian" -> 3 [] mode = "mixolydian" -> 4
    [] mode = "aeolian" -> 5 [] mode = "minor" -> 5 [] mode = "locrian" -> 6
    [] OTHER -> -1

\* semitones above the tonic of the 7 degrees of a mode, none for an unknown mode
ModeSemitones(mode) ==
  LET r == ModeIndex(mode)
  IN  IF r < 0 THEN << >>
      ELSE [i \in 1..7 |->
              LET j == r + i
              IN  IF j <= 7 THEN IonianIntervals[j] - IonianIntervals[r + 1]
                  ELSE IonianIntervals[j - 7] + 12 - IonianIntervals[r + 1]]

\* Tonal.Mode.notes(mode, tonic): the pitch classes of the scale
ModeNotes(mode, tonic) ==
  LET s == ModeSemitones(mode)
  IN  [i \in 1..Len(s) |-> (Chroma(tonic) + s[i]) % 12]

\* Tonal.Mode.notes(mode, tonic + "3"): the scale upwards from the tonic in octave 3
ModeNotesPitched(mode, tonic) ==
  LET s == ModeSemitones(mode)
  IN  [i \in 1..Len(s) |-> 48 + Chroma(tonic) + s[i]]

\* Tonal.Mode.triads(mode, tonic): the triad type on each degree
ModeTriads(mode) ==
  LET r == ModeIndex(mode)
  IN  IF r < 0 THEN << >>
      ELSE [i \in 1..7 |-> IonianTriads[((r + i - 1) % 7) + 1]]

TriadSemitones(type) ==
  CASE type = "M" -> << 0, 4, 7 >> [] type = "m" -> << 0, 3, 7 >> [] type = "dim" -> << 0, 3, 6 >>

NoChord == [empty |-> TRUE, type |-> "", tonic |-> NaN, notes |-> << >>]

(***************************************************************************)
(* samples.ts                                                              *)
(***************************************************************************)
SampleGroupNames ==
  { "drumloop100", "drumloop105", "drumloop110", "drumloop120", "drumloop130",
    "drumloop140", "vinyl", "rain", "cafe" }

\* SAMPLEGROUPS.get(name).size
SampleGroupSize(name) ==
  CASE name = "vinyl" -> 4 [] name = "rain" -> 4 [] name = "cafe" -> 2 [] OTHER -> 1

getRandomSample(name, seed) == randomFromInterval(0, SampleGroupSize(name) - 1, seed)

AvailableBpms == << 100, 105, 110, 120, 130, 140 >>

Abs(x) == IF x < 0 THEN -x ELSE x

RECURSIVE ClosestBpm(_, _, _)
ClosestBpm_tieHigher(bpm, prev, i) ==
  IF i > Len(AvailableBpms) THEN prev
  ELSE ClosestBpm(bpm,
                  IF Abs(AvailableBpms[i] - bpm) <= Abs(prev - bpm) THEN AvailableBpms[i] ELSE prev,
                  i + 1)

ClosestBpm(bpm, prev, i) ==
  IF i > Len(AvailableBpms) THEN prev
  ELSE ClosestBpm(bpm,
                  IF Abs(AvailableBpms[i] - bpm) < Abs(prev - bpm) THEN AvailableBpms[i] ELSE prev,
                  i + 1)

DrumloopName(t) ==
  CASE t = 100 -> "drumloop100" [] t = 105 -> "drumloop105" [] t = 110 -> "drumloop110"
    [] t = 120 -> "drumloop120" [] t = 130 -> "drumloop130" [] t = 140 -> "drumloop140"

selectDrumbeat(bpm) == DrumloopName(ClosestBpm(bpm, AvailableBpms[1], 2))

(***************************************************************************)
(* producer_presets.ts                                                     *)
(***************************************************************************)
\* [startBeat, duration] pairs in sixteenths
BassPatterns ==
  << << <<0, 16>> >>,
     << <<0, 8>>, <<8, 8>> >>,
     << <<0, 4>>, <<4, 4>>, <<8, 4>>, <<12, 4>> >>,
     << <<0, 8>>, <<10, 4>>, <<14, 2>> >>,
     << <<0, 4>>, <<8, 4>> >> >>

NoLayer == [present |-> FALSE, instrument |-> "", octaveShift |-> 0, volume |-> 0]

Layer(i, o, v) == [present |-> TRUE, instrument |-> i, octaveShift |-> o, volume |-> v]

\* volumes in tenths
PRESETS ==
  << [bassLine |-> Layer("BassGuitar", 0, 6), harmony |-> Layer("ElectricPiano", 0, 4),
      firstBeatArpeggio |-> NoLayer, melody |-> Layer("Piano", 1, 5),
      firstBeatArpeggioPattern |-> << 1, 3, 5 >>, melodyOctaves |-> FALSE],
     [bassLine |-> Layer("BassGuitar", 0, 7), harmony |-> Layer("Piano", 0, 5),
      firstBeatArpeggio |-> Layer("Harp", 1, 4), melody |-> Layer("ElectricPiano", 1, 6),
      firstBeatArpeggioPattern |-> << 1, 3, 5, 3 >>, melodyOctaves |-> TRUE],
     [bassLine |-> Layer("BassGuitar", 0, 8), harmony |-> Layer("ElectricGuitar", 0, 5),
      firstBeatArpeggio |-> Layer("Piano", 1, 6), melody |-> Layer("Synth", 1, 7),
      firstBeatArpeggioPattern |-> << 1, 3, 5, 7 >>, melodyOctaves |-> TRUE],
     [bassLine |-> Layer("BassGuitar", 0, 9), harmony |-> Layer("ElectricGuitar", 0, 6),
      firstBeatArpeggio |-> Layer("AcousticGuitar", 1, 7), melody |-> Layer("Piano", 1, 8),
      firstBeatArpeggioPattern |-> << 1, 5, 3, 7, 5 >>, melodyOctaves |-> TRUE] >>

selectPreset(valence, energy) ==
  IF valence < 5 /\ energy < 5 THEN PRESETS[1]
  ELSE IF valence >= 5 /\ energy < 5 THEN PRESETS[2]
  ELSE IF valence >= 5 /\ energy >= 5 THEN PRESETS[4]
  ELSE PRESETS[3]

(***************************************************************************)
(* producer.ts: the Producer whose produce(params) takes the parameters    *)
(***************************************************************************)
\* Math.round(bpm / 5) * 5
RoundToFive(bpm) == ((2 * bpm + 5) \div 10) * 5

QuantizeBpm(bpm) ==
  LET r == RoundToFive(bpm)
      lo == IF r < 70 THEN 70 ELSE r
  IN  IF lo > 100 THEN 100 ELSE lo

simplifyKeySignature_alwaysSwap(tonic, mode) ==
  IF mode \in {"ionian", "major"}
  THEN [mode |-> "major",
        tonic |-> IF MajorKeySignatureLength(tonic) >= MajorKeySignatureLength(Enharmonic(tonic))
                  THEN Enharmonic(tonic) ELSE tonic]
  ELSE [tonic |-> tonic, mode |-> mode]

simplifyKeySignature(tonic, mode) ==
  LET afterIonian ==
        IF mode = "ionian"
        THEN [mode |-> "major",
              tonic |-> IF MajorKeySignatureLength(tonic)
                             >= MajorKeySignatureLength(Enharmonic(tonic))
                        THEN Enharmonic(tonic) ELSE tonic]
        ELSE [tonic |-> tonic, mode |-> mode]
  IN  IF afterIonian.mode = "aeolian"
      THEN [mode |-> "minor",
            tonic |-> IF MinorKeySignatureLength(afterIonian.tonic)
                           >= MajorKeySignatureLength(Enharmonic(afterIonian.tonic))
                      THEN Enharmonic(afterIonian.tonic) ELSE afterIonian.tonic]
      ELSE afterIonian

\* what produce stores in bpm, tonic and mode for a vector given by its bpm, the
\* name of its tonic and the name of its mode
Normalize(v) ==
  LET k == simplifyKeySignature(v.tonic, v.mode)
  IN  [bpm |-> QuantizeBpm(v.bpm), tonic |-> k.tonic, mode |-> k.mode]

\* this.chordsTonal[chordNo] for the degree written in chords[chordNo]
ResolveChord(degree, notesInScale, chordsInScale) ==
  LET chordIndex == degree - 1
  IN  IF chordIndex + 1 \in 1..Len(chordsInScale)
      THEN LET root == 48 + notesInScale[chordIndex + 1]
               sem  == TriadSemitones(chordsInScale[chordIndex + 1])
           IN  [empty |-> FALSE, type |-> chordsInScale[chordIndex + 1], tonic |-> root,
                notes |-> [i \in 1..3 |-> root + sem[i]]]
      ELSE NoChord

NewProducerState ==
  [samples |-> << >>, sampleLoops |-> << >>, instruments |-> << >>,
   instrumentNotes |-> << >>, drumbeatTimings |-> << >>]

startDrumbeat(st, time) ==
  [st EXCEPT !.drumbeatTimings = Append(@, [isStart |-> TRUE, time |-> time])]

endDrumbeat(st, time) ==
  [st EXCEPT !.drumbeatTimings = Append(@, [isStart |-> FALSE, time |-> time])]

addSample_unregistered(st, sample, sampleIndex, startTime, stopTime) ==
  [st EXCEPT
     !.sampleLoops = Append(@, [sampleGroupName |-> sample, sampleIndex |-> sampleIndex,
                                startTime |-> startTime, stopTime |-> stopTime])]

addSample(st, sample, sampleIndex, startTime, stopTime) ==
  LET known == \E i \in 1..Len(st.samples) :
                  st.samples[i][1] = sample /\ st.samples[i][2] = sampleIndex
  IN  [st EXCEPT
         !.samples = IF known THEN @ ELSE Append(@, << sample, sampleIndex >>),
         !.sampleLoops = Append(@, [sampleGroupName |-> sample, sampleIndex |-> sampleIndex,
                                    startTime |-> startTime, stopTime |-> stopTime])]

addNote(st, instrument, pitch, duration, time, velocity) ==
  LET known == \E i \in 1..Len(st.instruments) : st.instruments[i] = instrument
  IN  [st EXCEPT
         !.instruments = IF known THEN @ ELSE Append(@, instrument),
         !.instrumentNotes = Append(@, [instrument |-> instrument, pitch |-> pitch,
                                        duration |-> duration, time |-> time,
                                        velocity |-> velocity])]

\* notes.forEach of addArpeggio: the single-note offset is an object, which
\* addTime and subtractTime parse to NaN
RECURSIVE addArpeggio(_, _, _, _, _, _, _)
addArpeggio(st, instrument, notes, totalDuration, startTime, velocity, i) ==
  IF i > Len(notes) THEN st
  ELSE addArpeggio(addNote(st, instrument, << notes[i] >>,
                           subtractTime(totalDuration, NaN), addTime(startTime, NaN), velocity),
                   instrument, notes, totalDuration, startTime, velocity, i + 1)

\* bassPattern.forEach
RECURSIVE addBassPattern(_, _, _, _, _, _, _)
addBassPattern(st, instrument, rootNote, pattern, measure, velocity, i) ==
  IF i > Len(pattern) THEN st
  ELSE addBassPattern(addNote(st, instrument, << rootNote >>, pattern[i][2],
                              measure * 16 + pattern[i][1], velocity),
                      instrument, rootNote, pattern, measure, velocity, i + 1)

\* the reduce over one melody: runs of equal entries as [note, length, index of
\* the first entry]; an empty melody leaves the single empty run
RECURSIVE MelodyRuns(_, _, _, _)
MelodyRuns(melody, arr, top, i) ==
  IF i > Len(melody) THEN Append(arr, top)
  ELSE IF top = << >> THEN MelodyRuns(melody, arr, << melody[i], 1, i - 1 >>, i + 1)
  ELSE IF top[1] = melody[i]
       THEN MelodyRuns(melody, arr, << melody[i], top[2] + 1, top[3] >>, i + 1)
  ELSE MelodyRuns(melody, Append(arr, top), << melody[i], 1, i - 1 >>, i + 1)

\* notesReduced.forEach
RECURSIVE addMelody(_, _, _, _, _, _)
addMelody(st, preset, notesInScalePitched, runs, measure, i) ==
  IF i > Len(runs) THEN st
  ELSE IF runs[i] = << >> THEN addMelody(st, preset, notesInScalePitched, runs, measure, i + 1)
  ELSE
    LET note == runs[i][1]
        scaleDegreeIndex == mapNote(note)[1]
        octave == mapNote(note)[2]
        scaleNote == IF scaleDegreeIndex + 1 \in 1..Len(notesInScalePitched)
                     THEN notesInScalePitched[scaleDegreeIndex + 1] ELSE NaN
        n == octShift(scaleNote, octave + preset.melody.octaveShift)
        pitch == IF preset.melodyOctaves THEN << octShift(n, -1), n >> ELSE << n >>
    IN  IF scaleDegreeIndex >= 0
        THEN addMelody(addNote(st, preset.melody.instrument, pitch, 4,
                               measure * 16 + runs[i][3] * 2, preset.melody.volume),
                       preset, notesInScalePitched, runs, measure, i + 1)
        ELSE addMelody(st, preset, notesInScalePitched, runs, measure, i + 1)

\* mountNotesOnScale(offsetScaleDegree, notes, scale)
mountNotesOnScale(offsetScaleDegree, notes, scale) ==
  [i \in 1..Len(notes) |->
     LET m == mapNote(notes[i] + offsetScaleDegree)
     IN  octShift(IF m[1] + 1 \in 1..Len(scale) THEN scale[m[1] + 1] ELSE NaN, m[2])]

\* the body of chords.forEach in produceIteration for one slot that is not a rest
ChordLayers(p, st, scaleDegree, chord, measure, seed) ==
  LET preset == p.preset
      withBass ==
        IF preset.bassLine.present
        THEN addBassPattern(st, preset.bassLine.instrument,
                            12 * (1 + preset.bassLine.octaveShift + 1)
                              + p.notesInScale[scaleDegree],
                            BassPatterns[randomFromInterval(0, Len(BassPatterns) - 1, seed) + 1],
                            measure, preset.bassLine.volume, 1)
        ELSE st
      shifted == octShiftAll(chord.notes, preset.harmony.octaveShift)
      harmonyNotes == [shifted EXCEPT ![1] = octShift(@, 1)]
      withHarmony ==
        IF preset.harmony.present
        THEN addNote(withBass, preset.harmony.instrument, harmonyNotes, 16, measure * 16,
                     preset.harmony.volume)
        ELSE withBass
  IN  IF preset.firstBeatArpeggio.present
      THEN addArpeggio(withHarmony, preset.firstBeatArpeggio.instrument,
                       octShiftAll(mountNotesOnScale(scaleDegree, preset.firstBeatArpeggioPattern,
                                                     p.notesInScalePitched),
                                   preset.firstBeatArpeggio.octaveShift),
                       0, measure, preset.firstBeatArpeggio.volume, 1)
      ELSE withHarmony

\* the time at which a rest slot ends the rhythm loop: "measure:3"
RestSlotEnd(measure) == measure * 16 + 12

\* chords.forEach of produceIteration, from slot chordNo (counted from 0) on
RECURSIVE IterateChords(_, _, _, _, _, _)
IterateChords(p, st, noDrumBeatCurrently, iterationMeasure, chords, chordNo) ==
  IF chordNo >= Len(chords) \/ Len(st.instrumentNotes) < 0 THEN st
  ELSE
    LET chord == p.chordsTonal[chordNo + 1]
        measure == iterationMeasure + chordNo
        afterDrum ==
          IF chord.empty THEN endDrumbeat(st, RestSlotEnd(measure))
          ELSE IF noDrumBeatCurrently THEN startDrumbeat(st, measure * 16)
          ELSE st
        afterLayers ==
          IF chord.empty THEN afterDrum
          ELSE ChordLayers(p, afterDrum, chords[chordNo + 1], chord, measure,
                           p.energy + p.valence + 10 * (iterationMeasure + chordNo))
        afterMelody ==
          IF Len(p.melodies) = 0 \/ ~p.preset.melody.present THEN afterLayers
          ELSE addMelody(afterLayers, p.preset, p.notesInScalePitched,
                         MelodyRuns(p.melodies[chordNo + 1], << >>, << >>, 1), measure, 1)
    IN  IterateChords(p, afterMelody, chord.empty, iterationMeasure, chords, chordNo + 1)

\* produceIteration(iterationMeasure, cutoff); cutoff 0 stands for no cutoff
produceIteration(p, st, iterationMeasure, cutoff) ==
  LET chords == IF cutoff # 0 THEN SubSeq(p.chords, 1, IF cutoff < Len(p.chords) THEN cutoff
                                                       ELSE Len(p.chords))
                ELSE p.chords
  IN  [st |-> IterateChords(p, st, FALSE, iterationMeasure, chords, 0), measures |-> Len(chords)]

produceIntro == 1

\* Math.ceil(24 / length)
numberOfIterations_floor(length) == 24 \div length

numberOfIterations(length) == (24 + length - 1) \div length

drumbeatPadding_from8(length) == IF length >= 8 THEN 2 ELSE 1

drumbeatPadding(length) == IF length > 8 THEN 2 ELSE 1

\* the for loop of produceMain, from iteration i on
RECURSIVE MainIterations(_, _, _, _)
MainIterations(p, st, measureStart, i) ==
  LET len == Len(p.chords)
      iterationMeasure == measureStart + i * len
      started == startDrumbeat(st, 16 * (IF i = 0 THEN iterationMeasure + drumbeatPadding(len)
                                         ELSE iterationMeasure))
      ended == endDrumbeat(started, 16 * (measureStart + (i + 1) * len - drumbeatPadding(len)))
  IN  IF i >= numberOfIterations(len) \/ Len(st.instrumentNotes) < 0 THEN st
      ELSE MainIterations(p, produceIteration(p, ended, iterationMeasure, 0).st, measureStart, i + 1)

produceMain(p, st, introLength) ==
  [st |-> MainIterations(p, st, introLength, 0),
   length |-> Len(p.chords) * numberOfIterations(Len(p.chords))]

produceOutro_noTail(p, st, introLength, mainLength) ==
  LET it == produceIteration(p, st, introLength + mainLength, 2)
  IN  [st |-> it.st, length |-> it.measures]

\* the value produceOutro stores in this.outroLength at line 166 is replaced by
\* the value it returns, which produce assigns to this.outroLength at line 98
produceOutro(p, st, introLength, mainLength) ==
  LET it == produceIteration(p, st, introLength + mainLength, 2)
  IN  [st |-> it.st, length |-> it.measures + 1]

produceFx(p, st, numMeasures) ==
  IF p.valence < 5 /\ p.modeNum = 6
  THEN addSample(st, "rain", getRandomSample("rain", p.valence), 0, numMeasures * 16 - 8)
  ELSE addSample(st, "vinyl", getRandomSample("vinyl", p.valence + p.energy), 0,
                 numMeasures * 16 - 8)

\* the place Array.prototype.sort, which is stable, gives entry i of the timings
TimingRank(timings, i) ==
  1 + Cardinality({ j \in 1..Len(timings) :
                      \/ timings[j].time < timings[i].time
                      \/ timings[j].time = timings[i].time /\ j < i })

\* drumbeatTimings.sort by time
SortTimings(timings) ==
  [k \in 1..Len(timings) |-> timings[CHOOSE i \in 1..Len(timings) : TimingRank(timings, i) = k]]

\* the entries of the sorted timings that are starts and can still be the
\* currentStartTime when the forEach reaches the end at place e: those after
\* the end before e, which set it back to null
OpenStarts(timings, e) ==
  { s \in 1..(e - 1) :
      /\ timings[s].isStart
      /\ \A j \in (s + 1)..(e - 1) : timings[j].isStart }

\* the ends at which the forEach finds a currentStartTime, in the order of the
\* timings
RECURSIVE PairedEnds(_, _)
PairedEnds(timings, e) ==
  IF e > Len(timings) THEN << >>
  ELSE (IF ~timings[e].isStart /\ OpenStarts(timings, e) # {} THEN << e >> ELSE << >>)
         \o PairedEnds(timings, e + 1)

\* drumbeatTimings.forEach: a loop from the first start after the last end to
\* the next end
PairTimings(st, timings, drumbeatGroup, drumbeatIndex) ==
  LET ends == PairedEnds(timings, 1)
      loops == [k \in 1..Len(ends) |->
                  LET first == CHOOSE s \in OpenStarts(timings, ends[k]) :
                                 \A t \in OpenStarts(timings, ends[k]) : s <= t
                  IN  [sampleGroupName |-> drumbeatGroup, sampleIndex |-> drumbeatIndex,
                       startTime |-> timings[first].time,
                       stopTime |-> timings[ends[k]].time]]
      known == \E i \in 1..Len(st.samples) :
                  st.samples[i][1] = drumbeatGroup /\ st.samples[i][2] = drumbeatIndex
  IN  [st EXCEPT
         !.samples = IF known \/ Len(ends) = 0 THEN @
                     ELSE Append(@, << drumbeatGroup, drumbeatIndex >>),
         !.sampleLoops = @ \o loops]

\* the index that goes with the group selectDrumbeat returns
drumbeatIndexOf(group, energy) == getRandomSample(group, energy)

\* the fields produce derives from the scale of the normalized tonic and mode
DerivedFromScale(params, norm, notesInScale, chordsInScale) ==
  [bpm |-> norm.bpm, tonic |-> norm.tonic, mode |-> norm.mode,
   keyNum |-> params.key, modeNum |-> params.mode,
   notesInScale |-> notesInScale,
   notesInScalePitched |-> ModeNotesPitched(norm.mode, norm.tonic),
   chordsInScale |-> chordsInScale,
   energy |-> params.energy, valence |-> params.valence, swing |-> params.swing,
   chords |-> params.chords, melodies |-> params.melodies,
   preset |-> selectPreset(params.valence, params.energy),
   chordsTonal |-> [i \in 1..Len(params.chords) |->
                      ResolveChord(params.chords[i], notesInScale, chordsInScale)]]

DerivedFromKey(params, norm) ==
  DerivedFromScale(params, norm, ModeNotes(norm.mode, norm.tonic), ModeTriads(norm.mode))

\* the fields produce derives from the parameters before it arranges the track
Derived(params) ==
  DerivedFromKey(params, Normalize([bpm |-> params.bpm, tonic |-> keyNumberToString(params.key),
                                    mode |-> modeNumberToString(params.mode)]))

\* the end of produce: the lists the producer is left with, the fields it has
\* set and the Track it returns
ProduceTrack(params, p, mainLength, outroLength, final) ==
  [st |-> final,
   fields |-> [bpm |-> p.bpm, tonic |-> p.tonic, mode |-> p.mode,
               chords |-> p.chords, chordsTonal |-> p.chordsTonal,
               notesInScale |-> p.notesInScale,
               introLength |-> produceIntro, mainLength |-> mainLength,
               outroLength |-> outroLength],
   track |-> [title |-> IF params.title # "" THEN << params.title >>
                        ELSE << "Lofi track in", p.tonic, p.mode >>,
              swing |-> randomFromInterval(1, 10, p.swing) <= 1,
              key |-> p.tonic, keyNum |-> p.keyNum, mode |-> p.mode,
              modeNum |-> p.modeNum,
              numMeasures |-> produceIntro + mainLength + outroLength, bpm |-> p.bpm,
              samples |-> final.samples, sampleLoops |-> final.sampleLoops,
              instruments |-> final.instruments,
              instrumentNotes |-> final.instrumentNotes,
              color |-> randomColor(p.energy + p.valence),
              outputParams |-> params]]

\* produce from the pairing of the sorted drumbeat timings on
ProducePairs(params, p, mainLength, outroLength, fx, sorted, drumbeatGroup) ==
  ProduceTrack(params, p, mainLength, outroLength,
               PairTimings([fx EXCEPT !.drumbeatTimings = sorted], sorted, drumbeatGroup,
                           drumbeatIndexOf(drumbeatGroup, p.energy)))

\* produce from selectDrumbeat and the sort of the drumbeat timings on
ProduceDrumbeat(params, p, mainLength, outroLength, fx) ==
  ProducePairs(params, p, mainLength, outroLength, fx,
               SortTimings(fx.drumbeatTimings), selectDrumbeat(p.bpm))

\* produce from produceFx on
ProduceFromFx(params, p, mainLength, outro) ==
  ProduceDrumbeat(params, p, mainLength, outro.length,
                  produceFx(p, outro.st, produceIntro + mainLength + outro.length))

\* produce from produceOutro on
ProduceFromOutro(params, p, main) ==
  ProduceFromFx(params, p, main.length, produceOutro(p, main.st, produceIntro, main.length))

\* produce from produceIntro and produceMain on
ProduceFromMain(st, params, p) ==
  ProduceFromOutro(params, p, produceMain(p, st, produceIntro))

\* produce(params) on a producer whose lists are st: the lists it leaves behind,
\* the fields it sets and the Track it returns
Produce(st, params) == ProduceFromMain(st, params, Derived(params))

(***************************************************************************)
(* Parameter vectors                                                       *)
(***************************************************************************)
BaseParams ==
  [title |-> "", key |-> 1, mode |-> 1, bpm |-> 82, energy |-> 5, valence |-> 5, swing |-> 5,
   chords |-> << 1, 4, 5, 1 >>, melodies |-> << <<1>>, <<1>>, <<1>>, <<1>> >>]

ChordSeqs ==
  { << 1, 4, 5, 1 >>, << 1, 0, 5, 1 >>, << 0, 0, 3 >>, << 5 >>, << 2, 8, -1, 7, 0 >>,
    << 1, 2, 0, 0, 5, 6, 7, 1, 0 >>, << 0, 6 >> }

MelodyPool == << << 1, 1, 2, 0 >>, << -7, 3, 3 >>, << -1, 8, 8 >>, << 0, 0 >>, << >> >>

\* one melody per chord slot, or no melodies at all
MelodiesFor(chords, kind) ==
  IF kind = 0 THEN << >>
  ELSE [i \in 1..Len(chords) |-> MelodyPool[((i + kind) % Len(MelodyPool)) + 1]]

ParamsSet ==
  { [BaseParams EXCEPT !.chords = c, !.melodies = MelodiesFor(c, 1)] : c \in ChordSeqs }
  \cup { [BaseParams EXCEPT !.chords = c, !.melodies = << >>] :
           c \in { << 1, 0, 5, 1 >>, << 5 >> } }
  \cup { [BaseParams EXCEPT !.energy = x[1], !.valence = x[2], !.mode = x[3]] :
           x \in { << 3, 3, 6 >>, << 8, 3, 1 >>, << 3, 8, 6 >>, << 8, 8, 2 >> } }
  \cup { [BaseParams EXCEPT !.key = x[1], !.mode = x[2], !.bpm = x[3], !.swing = x[4],
                            !.title = "t"] :
           x \in { << 7, 1, 103, 0 >>, << 13, 0, 58, 10 >>, << 4, 6, 98, 5 >> } }

EmptyChordsParams == [BaseParams EXCEPT !.chords = << >>, !.melodies = << >>]

(***************************************************************************)
(* producer.ts: the Producer that is constructed from the parameters       *)
(***************************************************************************)
DEFAULT_PRESET_trackLength == 120

\* DEFAULT_PRESET.instrumentProbabilities, in the order of the map
PresetInstruments ==
  << "Piano", "SoftPiano", "ElectricPiano", "AcousticGuitar", "BassGuitar", "Harp", "Synth" >>

\* DEFAULT_PRESET.sampleProbabilities, in the order of the map
PresetSamples == << "vinyl", "rain", "cafe" >>

\* the entries of names that are in drawn, in the order of names
RECURSIVE Drawn(_, _, _)
Drawn(names, drawn, i) ==
  IF i > Len(names) THEN << >>
  ELSE (IF names[i] \in drawn THEN << names[i] >> ELSE << >>) \o Drawn(names, drawn, i + 1)

\* generateSamples: the drum loop and the samples for which Math.random() fell
\* below the adjusted probability
generateSamples(params, drawn) ==
  LET names == Drawn(PresetSamples, drawn, 1)
  IN  << << selectDrumbeat(params.bpm), 0 >> >>
        \o [i \in 1..Len(names) |->
              << names[i], getRandomSample(names[i], 10 * (params.key + params.mode)) >>]

\* generateInstruments
generateInstruments(drawn) ==
  IF drawn = {} THEN << "Piano" >> ELSE Drawn(PresetInstruments, drawn, 1)

generateSampleLoops(samples, trackLength) ==
  [i \in 1..Len(samples) |->
     [sampleGroupName |-> samples[i][1], sampleIndex |-> samples[i][2],
      startTime |-> 0, stopTime |-> trackLength]]

\* Math.floor((trackLength * bpm) / (60 * beatsPerMeasure))
totalMeasures(trackLength, bpm) == (trackLength * bpm) \div 240

\* the constructor resolves every chord with processChord, which reads the scale
\* before the constructor has set it
ConstructorThrows(params) == Len(params.chords) > 0

\* generateInstrumentNotes for a producer without chords and melodies: the
\* first measure reads chord.root or melody.forEach of undefined
NotesThrow(params) == totalMeasures(DEFAULT_PRESET_trackLength, params.bpm) > 0

Track2(params, sampleDraw, instrumentDraw) ==
  LET samples == generateSamples(params, sampleDraw)
  IN  [title |-> IF params.title # "" THEN params.title ELSE "Untitled",
       bpm |-> params.bpm,
       length |-> DEFAULT_PRESET_trackLength,
       samples |-> samples,
       instruments |-> generateInstruments(instrumentDraw),
       sampleLoops |-> generateSampleLoops(samples, DEFAULT_PRESET_trackLength),
       instrumentNotes |-> << >>,
       color |-> randomColor(10 * (params.key + params.mode))]

\* the sets of samples Math.random() can select: none when the adjusted
\* probability is 0
SampleDraws(params) ==
  IF params.energy + params.valence > 0
  THEN SUBSET {PresetSamples[i] : i \in 1..Len(PresetSamples)} ELSE { {} }

InstrumentDraws == SUBSET {PresetInstruments[i] : i \in 1..Len(PresetInstruments)}

Params2Set ==
  { [BaseParams EXCEPT !.chords = << >>, !.melodies = << >>, !.bpm = b] : b \in {1, 82} }
  \cup { BaseParams }

(***************************************************************************)
(* State                                                                   *)
(***************************************************************************)
VARIABLES
  prod,      \* the lists of the Producer instance: samples, sampleLoops, ...
  last,      \* the fields the last produce call set on the instance
  calls,     \* produce calls made on the instance
  pstatus,   \* "idle", "returned", or "looping" when produceMain does not end
  returned,  \* what the calls on the instance returned, as the callers received it
  result2,   \* outcome of new Producer(params).produce()
  nvec,      \* a vector of bpm, tonic and mode under normalization
  napplied,  \* how often it has been normalized
  drumbeat,  \* the last selectDrumbeat call: its arguments and the group returned
  transport, \* Tone.getTransport(): state, bpm, swing, seconds, scheduled events
  creator,   \* the Creator objects: track, resources, position in load
  gen        \* the generateAudio calls: "idle", "awaiting", "returned", "threw"

pvars == << prod, last, calls, pstatus, returned >>

nvars == << nvec, napplied, drumbeat >>

rvars == << transport, creator, gen >>

vars ==
  << prod, last, calls, pstatus, returned, result2, nvec, napplied, drumbeat,
     transport, creator, gen >>

NoFields ==
  [bpm |-> 0, tonic |-> "", mode |-> "", chords |-> << >>, chordsTonal |-> << >>,
   notesInScale |-> << >>, introLength |-> 0, mainLength |-> 0, outroLength |-> 0]

NoResult2 == [outcome |-> "none", params |-> BaseParams, track |-> << >>]

ProducerIdle ==
  /\ prod = NewProducerState
  /\ last = NoFields
  /\ calls = 0
  /\ pstatus = "idle"
  /\ returned = << >>

Producer2Idle == result2 = NoResult2

NoDrumbeat == [bpm |-> 0, energy |-> 0, group |-> ""]

NormalizeIdle ==
  /\ nvec = [bpm |-> 0, tonic |-> "C", mode |-> "undefined"]
  /\ napplied = 0
  /\ drumbeat = NoDrumbeat

(***************************************************************************)
(* Rendering: the Creator objects and the transport they share             *)
(***************************************************************************)
\* two render requests, so that one can arrive while the other is in flight
Creators == {"c1", "c2"}

MaxSeconds == 1

\* the tracks handed to the Creator, as long as the seconds the model counts
RenderTracks ==
  << [bpm |-> 80, swing |-> TRUE, length |-> MaxSeconds, fadeOutDuration |-> 1,
      samples |-> << << "vinyl", 2 >> >>,
      instruments |-> {"Piano", "BassGuitar"},
      sampleLoops |-> << [sampleGroupName |-> "vinyl", sampleIndex |-> 2] >>,
      instrumentNotes |-> << [instrument |-> "Piano"], [instrument |-> "BassGuitar"] >>],
     [bpm |-> 95, swing |-> FALSE, length |-> MaxSeconds, fadeOutDuration |-> 1,
      samples |-> << << "rain", 1 >>, << "tape", 0 >> >>,
      instruments |-> {"Piano"},
      sampleLoops |-> << [sampleGroupName |-> "rain", sampleIndex |-> 1],
                         [sampleGroupName |-> "tape", sampleIndex |-> 0] >>,
      instrumentNotes |-> << >>] >>

NoTrack ==
  [bpm |-> 0, swing |-> FALSE, length |-> 0, fadeOutDuration |-> 0, samples |-> << >>,
   instruments |-> {}, sampleLoops |-> << >>, instrumentNotes |-> << >>]

\* tracks long enough for a fade out to begin before their end: one with the
\* fade out of ten seconds that load of creator.ts assumes, one with the five
\* seconds of simplified_producer.ts
FadeTracks ==
  << [bpm |-> 80, swing |-> TRUE, length |-> 12, fadeOutDuration |-> 10,
      samples |-> << << "vinyl", 0 >> >>,
      instruments |-> {"Piano", "BassGuitar"},
      sampleLoops |-> << [sampleGroupName |-> "vinyl", sampleIndex |-> 0] >>,
      instrumentNotes |-> << [instrument |-> "Piano"], [instrument |-> "BassGuitar"] >>],
     [bpm |-> 80, swing |-> TRUE, length |-> 12, fadeOutDuration |-> 5,
      samples |-> << << "vinyl", 0 >> >>,
      instruments |-> {"Piano", "BassGuitar"},
      sampleLoops |-> << [sampleGroupName |-> "vinyl", sampleIndex |-> 0] >>,
      instrumentNotes |-> << [instrument |-> "Piano"], [instrument |-> "BassGuitar"] >>] >>

\* the keys a samplePlayers map can get: the groups the tracks name
PlayerGroups ==
  UNION {{RenderTracks[k].samples[i][1] : i \in 1..Len(RenderTracks[k].samples)} :
           k \in 1..Len(RenderTracks)}

InCatalog(name) == name \in SampleGroupNames

\* new Map(): no group has an array
NoPlayers == [g \in PlayerGroups |-> << >>]

\* new Creator(track), before the constructor has run
NoCreator ==
  [variant |-> "none", track |-> NoTrack, phase |-> "none", samplePlayers |-> NoPlayers,
   instruments |-> {}, disposedInstruments |-> {}, gain |-> "none", recorder |-> "none",
   recording |-> "idle", scheduled |-> FALSE, fadeOutInterval |-> FALSE,
   volumeOffset |-> 0, volumes |-> [i \in {} |-> 0], elapsed |-> -1, raised |-> FALSE]

\* constructor of Creator
NewCreatorState(variant, track) ==
  [NoCreator EXCEPT !.variant = variant, !.track = track, !.phase = "constructed",
                    !.gain = "live", !.recorder = "live"]

StoppedTransport ==
  [state |-> "stopped", bpm |-> 120, swing |-> 0, seconds |-> 0, events |-> {}]

\* the samplePlayers map load builds: Array(size) with the player at sampleIndex
\* for every sample of the track whose group is in SAMPLEGROUPS
BuildPlayers(track) ==
  [g \in PlayerGroups |->
     IF InCatalog(g) /\ \E i \in 1..Len(track.samples) : track.samples[i][1] = g
     THEN [j \in 1..SampleGroupSize(g) |->
             IF \E i \in 1..Len(track.samples) : track.samples[i] = << g, j - 1 >>
             THEN "loading" ELSE "hole"]
     ELSE << >>]

\* samplePlayers.get(name)[index] is a player
HasPlayer(players, loop) ==
  /\ loop.sampleIndex + 1 \in 1..Len(players[loop.sampleGroupName])
  /\ players[loop.sampleGroupName][loop.sampleIndex + 1] # "hole"

\* no buffer of the page is still loading
AllLoaded(cs) ==
  \A c \in Creators : \A g \in PlayerGroups : \A j \in 1..Len(cs[c].samplePlayers[g]) :
     cs[c].samplePlayers[g][j] # "loading"

\* the body of players.forEach in dispose, for one slot of the array
DisposePlayer_unguarded(player) ==
  IF player = "hole" THEN "raised" ELSE "disposed"

DisposePlayer(player) ==
  IF player # "hole" THEN "disposed" ELSE player

DisposePlayers(players) ==
  [g \in PlayerGroups |-> [j \in 1..Len(players[g]) |-> DisposePlayer(players[g][j])]]

\* Creator.dispose on the fields of the Creator
DisposeCreator(cr) ==
  LET ps == DisposePlayers(cr.samplePlayers)
      raises == \E g \in PlayerGroups : \E j \in 1..Len(ps[g]) : ps[g][j] = "raised"
  IN  IF raises
      THEN [cr EXCEPT !.raised = TRUE]
      ELSE [cr EXCEPT !.samplePlayers = ps,
                      !.disposedInstruments = cr.instruments,
                      !.gain = "disposed",
                      !.recorder = "disposed"]

\* Creator.dispose on the transport: stop() and cancel()
DisposeTransport(cr, tp) ==
  IF DisposeCreator(cr).raised THEN tp
  ELSE [tp EXCEPT !.state = "stopped", !.seconds = 0, !.events = {}]

\* the volume offset of the fade out at a transport position
VolumeOffset(seconds, fadeOutBegin) ==
  IF seconds < fadeOutBegin THEN 0 ELSE (seconds - fadeOutBegin) * 4

\* seconds before the end at which load of creator.ts begins the fade out
FadeOutSeconds == 10

\* instrumentVolumes of load: the volume of every instrument as getInstrument
\* made it. Volumes are counted in decibels from that volume.
InstrumentVolumes(instruments) == [i \in instruments |-> 0]

\* the body of instrumentVolumes.forEach in the fade callback
SetVolumes(cr, volumeOffset) ==
  [i \in cr.instruments |-> InstrumentVolumes(cr.instruments)[i] - volumeOffset]

\* load has been called and its promise is neither settled nor abandoned
InFlight(cr) ==
  cr.phase \in {"load:start", "load:loaded", "record:start", "record:timer", "record:stop"}

RenderIdle ==
  /\ transport = StoppedTransport
  /\ creator = [c \in Creators |-> NoCreator]
  /\ gen = [c \in Creators |-> "idle"]

(***************************************************************************)
(* Specification of the Producer with produce(params)                      *)
(***************************************************************************)
PInit == ProducerIdle /\ Producer2Idle /\ NormalizeIdle /\ RenderIdle

\* new Producer()
NewProducer ==
  /\ calls > 0
  /\ prod' = NewProducerState
  /\ last' = NoFields
  /\ calls' = 0
  /\ pstatus' = "idle"
  /\ returned' = << >>
  /\ UNCHANGED << result2, nvars, rvars >>

\* what a call of produce that returned r leaves in the instance and in the
\* hands of its caller
Returns(r, params) ==
  /\ prod' = r.st
  /\ last' = r.fields
  /\ returned' = Append(returned, [params |-> params, track |-> r.track])

\* producer.produce(params) returns a Track
ProduceCall(params) ==
  /\ pstatus # "looping"
  /\ calls < MaxCalls
  /\ Len(params.chords) > 0
  /\ Returns(Produce(prod, params), params)
  /\ calls' = calls + 1
  /\ pstatus' = "returned"
  /\ UNCHANGED << result2, nvars, rvars >>

\* producer.produce(params) with no chords: Math.ceil(24 / 0) is Infinity and the
\* loop of produceMain never ends
ProduceLoops(params) ==
  /\ pstatus # "looping"
  /\ calls < MaxCalls
  /\ Len(params.chords) = 0
  /\ pstatus' = "looping"
  /\ calls' = calls + 1
  /\ UNCHANGED << prod, last, returned, result2, nvars, rvars >>

PNext ==
  \/ NewProducer
  \/ \E params \in ParamsSet : ProduceCall(params)
  \/ ProduceLoops(EmptyChordsParams)

SpecProduce == PInit /\ [][PNext]_vars

(***************************************************************************)
(* Specification of the Producer with new Producer(params).produce()       *)
(***************************************************************************)
\* new Producer(params) throws
Construct2Throws(params) ==
  /\ result2.outcome = "none"
  /\ ConstructorThrows(params)
  /\ result2' = [outcome |-> "throws", params |-> params, track |-> << >>]
  /\ UNCHANGED << pvars, nvars, rvars >>

\* new Producer(params).produce() throws in generateInstrumentNotes
Produce2Throws(params) ==
  /\ result2.outcome = "none"
  /\ ~ConstructorThrows(params)
  /\ NotesThrow(params)
  /\ result2' = [outcome |-> "throws", params |-> params, track |-> << >>]
  /\ UNCHANGED << pvars, nvars, rvars >>

\* new Producer(params).produce() returns a Track
Produce2Returns(params, sampleDraw, instrumentDraw) ==
  /\ result2.outcome = "none"
  /\ ~ConstructorThrows(params)
  /\ ~NotesThrow(params)
  /\ result2' = [outcome |-> "track", params |-> params,
                 track |-> << Track2(params, sampleDraw, instrumentDraw) >>]
  /\ UNCHANGED << pvars, nvars, rvars >>

P2Next ==
  \/ \E params \in Params2Set : Construct2Throws(params)
  \/ \E params \in Params2Set : Produce2Throws(params)
  \/ \E params \in Params2Set : \E sd \in SampleDraws(params) : \E id \in InstrumentDraws :
        Produce2Returns(params, sd, id)

SpecProduce2 == PInit /\ [][P2Next]_vars

(***************************************************************************)
(* Specification of the parameter normalization                            *)
(***************************************************************************)
MaxNormalize == 2

BpmInputs == { 1, 58, 67, 68, 70, 72, 73, 82, 83, 97, 98, 100, 102, 103, 140 }

NInit ==
  /\ ProducerIdle
  /\ Producer2Idle
  /\ RenderIdle
  /\ napplied = 0
  /\ drumbeat = NoDrumbeat
  /\ nvec \in { [bpm |-> b, tonic |-> keyNumberToString(k), mode |-> modeNumberToString(m)] :
                  b \in BpmInputs, k \in 0..13, m \in 0..8 }

\* the normalization of produce, applied to the vector once more
NormalizeStep ==
  /\ napplied < MaxNormalize
  /\ nvec' = Normalize(nvec)
  /\ napplied' = napplied + 1
  /\ UNCHANGED << pvars, result2, drumbeat, rvars >>

NNext == NormalizeStep

SpecNormalize == NInit /\ [][NNext]_vars

(***************************************************************************)
(* Specification of produceMain                                            *)
(***************************************************************************)
MaxChords == 30

\* a chord sequence of n slots that runs through the degrees 0..7 from d on
MainChords(n, d) == [i \in 1..n |-> (i + d) % 8]

\* what produceMain leaves in the lists of the producer and in mainLength
MainReturns(chords, main) ==
  /\ prod' = main.st
  /\ last' = [NoFields EXCEPT !.chords = chords, !.introLength = produceIntro,
                              !.mainLength = main.length]

\* produce on a new producer up to the return of produceMain
ProduceMainCall(chords) ==
  /\ pstatus = "idle"
  /\ MainReturns(chords,
                 produceMain(Derived([BaseParams EXCEPT !.chords = chords, !.melodies = << >>]),
                             NewProducerState, produceIntro))
  /\ pstatus' = "main"
  /\ UNCHANGED << calls, returned, result2, nvars, rvars >>

MNext == \E n \in 1..MaxChords : \E d \in 0..3 : ProduceMainCall(MainChords(n, d))

SpecMain == PInit /\ [][MNext]_vars

(***************************************************************************)
(* Specification of one produce(params) on a new Producer                  *)
(***************************************************************************)
MaxTrackChords == 10

\* energy, valence and mode of the vectors: one for each ambience and preset
TrackMoods == { << 3, 3, 6 >>, << 8, 3, 1 >>, << 5, 5, 1 >> }

TrackParamsOf(chords, mood) ==
  [BaseParams EXCEPT !.chords = chords, !.melodies = MelodiesFor(chords, 1),
                     !.energy = mood[1], !.valence = mood[2], !.mode = mood[3]]

TrackParams ==
  { TrackParamsOf(MainChords(n, d), mood) :
      n \in 1..MaxTrackChords, d \in 0..3, mood \in TrackMoods }

\* produce(params) on a Producer that has produced nothing before
ProduceOnNew(params) ==
  /\ pstatus = "idle"
  /\ ProduceCall(params)

TNext == \E params \in TrackParams : ProduceOnNew(params)

SpecTrack == PInit /\ [][TNext]_vars

(***************************************************************************)
(* Specification of selectDrumbeat                                         *)
(***************************************************************************)
MaxBpm == 160

\* the energies produce passes as a second argument, which selectDrumbeat of
\* samples.ts does not declare
DrumbeatEnergies == { 1, 5, 9 }

\* selectDrumbeat(bpm, energy) as produce calls it
SelectDrumbeatCall(bpm, energy) ==
  /\ drumbeat' = [bpm |-> bpm, energy |-> energy, group |-> selectDrumbeat(bpm)]
  /\ UNCHANGED << pvars, result2, nvec, napplied, rvars >>

DNext == \E bpm \in 1..MaxBpm : \E energy \in DrumbeatEnergies : SelectDrumbeatCall(bpm, energy)

SpecDrumbeat == PInit /\ [][DNext]_vars

(***************************************************************************)
(* Specification of the rendering                                          *)
(***************************************************************************)
\* the requests arrive one after the other: the second Creator is made after
\* the first
Arrived(c) == c = "c2" => (creator["c1"].phase # "none" \/ gen["c1"] # "idle")

\* the module ./creator of the build is creator.ts or part_008: every Creator
\* of a run is of the same one
SameBuild(variant) == \A c \in Creators : creator[c].variant \in {"none", variant}

\* AudioGenerator.generateAudio up to the first await of load: the producer
\* returns a track, the Creator is constructed and load is called
GenerateAudioOf(c, track, variant) ==
  /\ Arrived(c)
  /\ SameBuild(variant)
  /\ gen[c] = "idle"
  /\ creator[c].phase = "none"
  /\ creator' = [creator EXCEPT
                   ![c] = [NewCreatorState(variant, track) EXCEPT !.phase = "load:start"]]
  /\ gen' = [gen EXCEPT ![c] = "awaiting"]
  /\ UNCHANGED << transport, pvars, result2, nvars >>

GenerateAudio(c, k, variant) == GenerateAudioOf(c, RenderTracks[k], variant)

\* AudioGenerator.generateAudio when the producer throws: no Creator exists
GenerateAudioProducerThrows(c) ==
  /\ Arrived(c)
  /\ gen[c] = "idle"
  /\ creator[c].phase = "none"
  /\ gen' = [gen EXCEPT ![c] = "threw"]
  /\ UNCHANGED << transport, creator, pvars, result2, nvars >>

\* AudioGenerator.generateAudio after load resolved: dispose and return
GenerateAudioReturns(c) ==
  /\ gen[c] = "awaiting"
  /\ creator[c].phase = "resolved"
  /\ creator' = [creator EXCEPT ![c] = DisposeCreator(creator[c])]
  /\ transport' = DisposeTransport(creator[c], transport)
  /\ gen' = [gen EXCEPT ![c] = "returned"]
  /\ UNCHANGED << pvars, result2, nvars >>

\* AudioGenerator.generateAudio after load rejected: the catch block rethrows
GenerateAudioRethrows(c) ==
  /\ gen[c] = "awaiting"
  /\ creator[c].phase = "rejected"
  /\ gen' = [gen EXCEPT ![c] = "threw"]
  /\ UNCHANGED << transport, creator, pvars, result2, nvars >>

\* await Tone.start() in load or in recordAndSave rejects: load rejects with the
\* resources it has created so far
StartRejects(c) ==
  /\ creator[c].phase \in {"load:start", "record:start"}
  /\ creator' = [creator EXCEPT ![c].phase = "rejected"]
  /\ UNCHANGED << transport, gen, pvars, result2, nvars >>

\* load of creator.ts from Tone.start() to the await in recordAndSave: tempo,
\* players, instruments, loops, notes, recorder connection, fade interval
LoadBuildAndSchedule(c) ==
  LET cr == creator[c]
      track == cr.track
      players == BuildPlayers(track)
      loops == {i \in 1..Len(track.sampleLoops) : HasPlayer(players, track.sampleLoops[i])}
      notes == {i \in 1..Len(track.instrumentNotes) :
                  track.instrumentNotes[i].instrument \in track.instruments}
  IN  /\ cr.variant = "creator.ts"
      /\ cr.phase = "load:start"
      /\ transport' =
           [transport EXCEPT !.bpm = track.bpm,
                             !.events = @ \cup (IF loops # {} THEN {<< c, "loop" >>} ELSE {})]
      /\ creator' =
           [creator EXCEPT ![c] = [cr EXCEPT !.samplePlayers = players,
                                            !.instruments = track.instruments,
                                            !.volumes = InstrumentVolumes(track.instruments),
                                            !.disposedInstruments = {},
                                            !.phase = "record:start",
                                            !.scheduled = loops # {} \/ notes # {},
                                            !.fadeOutInterval = TRUE]]
      /\ UNCHANGED << gen, pvars, result2, nvars >>

\* load of part_008 from Tone.start() to await Tone.loaded(): tempo, players,
\* instruments, swing
LoadBuild(c) ==
  LET cr == creator[c]
      track == cr.track
  IN  /\ cr.variant = "part_008"
      /\ cr.phase = "load:start"
      /\ transport' = [transport EXCEPT !.bpm = track.bpm,
                                        !.swing = IF track.swing THEN 2 ELSE 0]
      /\ creator' = [creator EXCEPT ![c] = [cr EXCEPT !.samplePlayers = BuildPlayers(track),
                                                      !.instruments = track.instruments,
                                                      !.volumes =
                                                         InstrumentVolumes(track.instruments),
                                                      !.disposedInstruments = {},
                                                      !.phase = "load:loaded"]]
      /\ UNCHANGED << gen, pvars, result2, nvars >>

\* a buffer of a player finishes loading
BufferLoaded(c, g, j) ==
  /\ j \in 1..Len(creator[c].samplePlayers[g])
  /\ creator[c].samplePlayers[g][j] = "loading"
  /\ creator' = [creator EXCEPT ![c].samplePlayers[g][j] = "loaded"]
  /\ UNCHANGED << transport, gen, pvars, result2, nvars >>

\* load of part_008 from Tone.loaded() to the await in recordAndSave: loops,
\* notes, recorder connection, fade callback. A loop whose group has no array, or
\* whose slot is empty, raises a TypeError after the loops before it are scheduled.
LoadSchedule(c) ==
  LET cr == creator[c]
      track == cr.track
      missing == {i \in 1..Len(track.sampleLoops) :
                    ~HasPlayer(cr.samplePlayers, track.sampleLoops[i])}
      first == IF missing = {} THEN Len(track.sampleLoops) + 1
               ELSE CHOOSE i \in missing : \A j \in missing : i <= j
      loopEvents == IF first > 1 THEN {<< c, "loop" >>} ELSE {}
      noteEvents == IF Len(track.instrumentNotes) > 0 THEN {<< c, "note" >>} ELSE {}
  IN  /\ cr.variant = "part_008"
      /\ cr.phase = "load:loaded"
      /\ AllLoaded(creator)
      /\ IF missing # {}
         THEN /\ transport' = [transport EXCEPT !.events = @ \cup loopEvents]
              /\ creator' = [creator EXCEPT ![c] = [cr EXCEPT !.phase = "rejected",
                                                             !.scheduled = first > 1]]
         ELSE /\ transport' = [transport EXCEPT
                                 !.events = @ \cup loopEvents \cup noteEvents
                                              \cup {<< c, "fade" >>}]
              /\ creator' = [creator EXCEPT
                               ![c] = [cr EXCEPT !.phase = "record:start",
                                                 !.scheduled = first > 1 \/ noteEvents # {}]]
      /\ UNCHANGED << gen, pvars, result2, nvars >>

\* recordAndSave from Tone.start() on: recorder.start(), transport.start(),
\* setTimeout
RecordAndSave(c) ==
  /\ creator[c].phase = "record:start"
  /\ creator' = [creator EXCEPT ![c].phase = "record:timer",
                                ![c].recording = "started",
                                ![c].elapsed = 0]
  /\ transport' = [transport EXCEPT !.state = "started"]
  /\ UNCHANGED << gen, pvars, result2, nvars >>

\* a second passes
Tick ==
  LET waiting == {c \in Creators : /\ creator[c].phase = "record:timer"
                                   /\ creator[c].elapsed < creator[c].track.length}
      moving == /\ transport.state = "started"
                /\ \/ transport.seconds < MaxSeconds
                   \/ \E c \in Creators : /\ InFlight(creator[c])
                                          /\ transport.seconds < creator[c].track.length
  IN  /\ waiting # {} \/ moving
      /\ creator' = [c \in Creators |->
                       IF c \in waiting
                       THEN [creator[c] EXCEPT !.elapsed = @ + 1] ELSE creator[c]]
      /\ transport' = IF moving THEN [transport EXCEPT !.seconds = @ + 1] ELSE transport
      /\ UNCHANGED << gen, pvars, result2, nvars >>

\* the timer of recordAndSave fires: the callback runs up to await recorder.stop()
TimerFires(c) ==
  /\ creator[c].phase = "record:timer"
  /\ creator[c].elapsed >= creator[c].track.length
  /\ creator' = [creator EXCEPT ![c].phase = "record:stop"]
  /\ UNCHANGED << transport, gen, pvars, result2, nvars >>

\* recorder.stop() resolves: transport.stop(), cancel(), resolve(recording)
StopResolves(c) ==
  /\ creator[c].phase = "record:stop"
  /\ creator' = [creator EXCEPT ![c].phase = "resolved", ![c].recording = "stopped"]
  /\ transport' = [transport EXCEPT !.state = "stopped", !.seconds = 0, !.events = {}]
  /\ UNCHANGED << gen, pvars, result2, nvars >>

\* recorder.stop() rejects: the callback of the timer ends there, and nothing
\* resolves or rejects the promise of recordAndSave
StopRejects(c) ==
  /\ creator[c].phase = "record:stop"
  /\ creator' = [creator EXCEPT ![c].phase = "abandoned"]
  /\ UNCHANGED << transport, gen, pvars, result2, nvars >>

\* creator.dispose()
Dispose(c) ==
  /\ creator[c].phase # "none"
  /\ creator' = [creator EXCEPT ![c] = DisposeCreator(creator[c])]
  /\ transport' = DisposeTransport(creator[c], transport)
  /\ UNCHANGED << gen, pvars, result2, nvars >>

\* the callback of setInterval in load of creator.ts
FadeOutInterval(c) ==
  LET cr == creator[c]
      seconds == transport.seconds
  IN  /\ cr.fadeOutInterval
      /\ IF seconds >= cr.track.length
         THEN creator' = [creator EXCEPT ![c].fadeOutInterval = FALSE]
         ELSE LET volumeOffset == VolumeOffset(seconds, cr.track.length - FadeOutSeconds)
              IN  creator' = [creator EXCEPT ![c].volumeOffset = volumeOffset,
                                             ![c].volumes = SetVolumes(cr, volumeOffset)]
      /\ creator' # creator
      /\ UNCHANGED << transport, gen, pvars, result2, nvars >>

\* the callback of transport.scheduleRepeat in load of part_008
FadeOutRepeat(c) ==
  LET cr == creator[c]
      volumeOffset == VolumeOffset(transport.seconds,
                                   cr.track.length - cr.track.fadeOutDuration)
  IN  /\ transport.state = "started"
      /\ << c, "fade" >> \in transport.events
      /\ creator' = [creator EXCEPT ![c].volumeOffset = volumeOffset,
                                    ![c].volumes = SetVolumes(cr, volumeOffset)]
      /\ creator' # creator
      /\ UNCHANGED << transport, gen, pvars, result2, nvars >>

RNext ==
  \/ \E c \in Creators : \E k \in 1..Len(RenderTracks) :
        \E variant \in {"creator.ts", "part_008"} : GenerateAudio(c, k, variant)
  \/ \E c \in Creators : GenerateAudioProducerThrows(c)
  \/ \E c \in Creators : GenerateAudioReturns(c)
  \/ \E c \in Creators : GenerateAudioRethrows(c)
  \/ \E c \in Creators : StartRejects(c)
  \/ \E c \in Creators : LoadBuildAndSchedule(c)
  \/ \E c \in Creators : LoadBuild(c)
  \/ \E c \in Creators : \E g \in PlayerGroups : \E j \in 1..4 : BufferLoaded(c, g, j)
  \/ \E c \in Creators : LoadSchedule(c)
  \/ \E c \in Creators : RecordAndSave(c)
  \/ Tick
  \/ \E c \in Creators : TimerFires(c)
  \/ \E c \in Creators : StopResolves(c)
  \/ \E c \in Creators : StopRejects(c)
  \/ \E c \in Creators : Dispose(c)

\* two requests and what their renders do to the resources and the transport;
\* the fade callbacks, which write volumes only, are left to SpecFade
SpecRender == PInit /\ [][RNext]_vars

(***************************************************************************)
(* Specification of one render with its fade callbacks                     *)
(***************************************************************************)
FNext ==
  \/ \E k \in 1..Len(FadeTracks) : \E variant \in {"creator.ts", "part_008"} :
        GenerateAudioOf("c1", FadeTracks[k], variant)
  \/ GenerateAudioReturns("c1")
  \/ GenerateAudioRethrows("c1")
  \/ StartRejects("c1")
  \/ LoadBuildAndSchedule("c1")
  \/ LoadBuild("c1")
  \/ \E g \in PlayerGroups : \E j \in 1..4 : BufferLoaded("c1", g, j)
  \/ LoadSchedule("c1")
  \/ RecordAndSave("c1")
  \/ Tick
  \/ TimerFires("c1")
  \/ StopResolves("c1")
  \/ StopRejects("c1")
  \/ Dispose("c1")
  \/ FadeOutInterval("c1")
  \/ FadeOutRepeat("c1")

SpecFade == PInit /\ [][FNext]_vars

(***************************************************************************)
(* Properties of the producers                                             *)
(***************************************************************************)
\* C1: two calls of produce on the same parameter vector return Tracks that are
\* equal field by field, whatever the instance produced before
C1_Determinism ==
  \A i, j \in 1..Len(returned) :
     returned[i].params = returned[j].params => returned[i].track = returned[j].track

\* C7: the bpm of a Track a producer built is one of 70, 75, ..., 100
C7_QuantizationBound ==
  result2.outcome = "track" => result2.track[1].bpm \in {70, 75, 80, 85, 90, 95, 100}

\* C8: normalizing a vector that has been normalized returns it unchanged
C8_IdempotentNormalization ==
  napplied >= 1 => Normalize(nvec) = nvec

\* C8 witness: a tonic whose enharmonic equivalent has a key signature of the
\* same length has been normalized twice
C8_Witness ==
  /\ napplied >= 2
  /\ nvec.tonic = "Gb"
  /\ nvec.mode = "major"

\* C9: in the chords produce has resolved, a degree outside 1..7 is the rest
\* chord and a degree in 1..7 is a triad rooted on that degree of the scale
C9_RestResolution ==
  \A i \in 1..Len(last.chords) :
     LET d == last.chords[i]
         chord == last.chordsTonal[i]
     IN  IF d \in 1..7
         THEN /\ ~chord.empty
              /\ d <= Len(last.notesInScale)
              /\ chord.tonic = 48 + last.notesInScale[d]
         ELSE chord.empty

\* the measures of the track whose slot resolved to the rest chord: those of
\* the repetitions of the main region and those of the outro
RestMeasures ==
  LET len == Len(last.chords)
  IN  { last.introLength + j : j \in { j \in 0..(last.mainLength - 1) :
                                         last.chordsTonal[(j % len) + 1].empty } }
      \cup { last.introLength + last.mainLength + j :
               j \in { j \in 0..(last.outroLength - 2) : last.chordsTonal[j + 1].empty } }

\* the rhythm loops of the Track the first call on an instance returned
RhythmLoops ==
  { l \in { returned[1].track.sampleLoops[i] : i \in 1..Len(returned[1].track.sampleLoops) } :
      l.sampleGroupName \notin {"vinyl", "rain"} }

\* C10: after the first call on an instance, no rhythm loop window covers time
\* of a slot that resolved to the rest chord: the window open before measure m
\* has ended at m:0
C10_RestGaps ==
  calls = 1 /\ pstatus = "returned" =>
    \A m \in RestMeasures : \A l \in RhythmLoops :
       ~(l.startTime < 16 * (m + 1) /\ l.stopTime > 16 * m)

(***************************************************************************)
(* Properties of the rendering                                             *)
(***************************************************************************)
\* every player, every instrument, the gain node and the recorder of the Creator
\* are disposed
Disposed(cr) ==
  /\ cr.gain = "disposed"
  /\ cr.recorder = "disposed"
  /\ cr.disposedInstruments = cr.instruments
  /\ \A g \in PlayerGroups : \A j \in 1..Len(cr.samplePlayers[g]) :
        cr.samplePlayers[g][j] \in {"hole", "disposed"}

\* the callback of the timer of recordAndSave has run to its end
TimerCallbackEnded(cr) == cr.phase \in {"resolved", "abandoned"}

\* the promise load returned is resolved or rejected
Settled(cr) == cr.phase \in {"resolved", "rejected"}

\* C2: when generateAudio has returned or thrown, the players, the instruments,
\* the gain node and the recorder of the Creator it constructed are disposed
C2_TeardownOnEveryExit ==
  \A c \in Creators :
     (gen[c] \in {"returned", "threw"} /\ creator[c].phase # "none") => Disposed(creator[c])

\* C3: at every point of the life of a Creator, dispose raises no error, and a
\* second dispose leaves the resources and the transport as the first left them
C3_DisposeIdempotent ==
  \A c \in Creators :
     creator[c].phase # "none" =>
       LET once == DisposeCreator(creator[c])
           transportOnce == DisposeTransport(creator[c], transport)
       IN  /\ ~once.raised
           /\ DisposeCreator(once) = once
           /\ DisposeTransport(once, transportOnce) = transportOnce

\* C3 witness: a Creator whose load is waiting for the recording timer has been
\* disposed: its player is disposed, the other slots of the array are empty,
\* and the transport is stopped and cleared
C3_Witness ==
  \E c \in Creators :
     /\ creator[c].phase = "record:timer"
     /\ Disposed(creator[c])
     /\ \E g \in PlayerGroups : \E i, j \in 1..Len(creator[c].samplePlayers[g]) :
           /\ creator[c].samplePlayers[g][i] = "hole"
           /\ creator[c].samplePlayers[g][j] = "disposed"
     /\ transport.state = "stopped"
     /\ transport.events = {}

\* C4: loops and notes are scheduled only when no player of the Creator is
\* still loading
C4_LoadingPrecedesScheduling ==
  \A c \in Creators :
     creator[c].scheduled =>
       \A g \in PlayerGroups : \A j \in 1..Len(creator[c].samplePlayers[g]) :
          creator[c].samplePlayers[g][j] # "loading"

\* C5: at most one render that has not been disposed is in flight on the
\* transport
C5_NotReentrant ==
  Cardinality({ c \in Creators : InFlight(creator[c]) /\ creator[c].gain # "disposed" }) <= 1

\* C6: when the callback of the recording timer has ended, the promise that
\* load returned is settled
C6_BoundedRender ==
  \A c \in Creators : TimerCallbackEnded(creator[c]) => Settled(creator[c])

(***************************************************************************)
(* Properties of the fade out                                              *)
(***************************************************************************)
\* this step is a run of the fade callback of the Creator that wrote a volume
FadeRan(c) ==
  /\ creator[c].instruments # {}
  /\ creator'[c].instruments = creator[c].instruments
  /\ creator'[c].volumes # creator[c].volumes

\* the second at which the fade out of the track of the Creator begins
FadeOutBegin(cr) == cr.track.length - cr.track.fadeOutDuration

\* C11: a run of the fade callback before the last fadeOutDuration seconds of
\* the track leaves every instrument at its volume of load, and a run within
\* them raises the volume of no instrument
C11_FadeMonotonicity ==
  [][\A c \in Creators :
       FadeRan(c) =>
         \A i \in creator[c].instruments :
            IF transport.seconds < FadeOutBegin(creator[c])
            THEN creator'[c].volumes[i] = InstrumentVolumes(creator[c].instruments)[i]
            ELSE creator'[c].volumes[i] <= creator[c].volumes[i]]_vars

\* C19: a run of the fade callback at second t sets every instrument to its
\* volume of load minus an offset that is 0 before length - fadeOutDuration of
\* the track and four decibels for every second after it
C19_FadeOutOffset ==
  [][\A c \in Creators :
       FadeRan(c) =>
         \A i \in creator[c].instruments :
            creator'[c].volumes[i] =
               InstrumentVolumes(creator[c].instruments)[i]
                 - (IF transport.seconds < FadeOutBegin(creator[c]) THEN 0
                    ELSE 4 * (transport.seconds - FadeOutBegin(creator[c])))]_vars

\* C18: when generateAudio has returned, the transport holds no event of the
\* render, is stopped unless another render has started it, and the interval of
\* the fade out is cleared
C18_EphemeralRenderState ==
  \A c \in Creators :
     gen[c] = "returned" =>
       /\ ~creator[c].fadeOutInterval
       /\ \A e \in transport.events : e[1] # c
       /\ (\A d \in Creators \ {c} : ~InFlight(creator[d])) => transport.state = "stopped"

(***************************************************************************)
(* Properties of the errors and of the cancellation                        *)
(***************************************************************************)
\* C12: produce returns no Track for a vector whose key is outside 1..12 or
\* whose mode is outside 1..7
C12_EagerValidation ==
  \A i \in 1..Len(returned) :
     /\ returned[i].params.key \in 1..12
     /\ returned[i].params.mode \in 1..7

\* C13: the part of load that schedules the loops and the notes does not throw:
\* it reaches the await of recordAndSave, with the loops that have a player on
\* the transport, also when the Track names a group SAMPLEGROUPS does not have
C13_MissingGroupRecoverable ==
  [][\A c \in Creators :
       (\/ creator[c].phase = "load:loaded" /\ creator'[c].phase # "load:loaded"
        \/ creator[c].phase = "load:start" /\ creator'[c].phase = "record:start")
       => /\ creator'[c].phase = "record:start"
          /\ (\E i \in 1..Len(creator[c].track.sampleLoops) :
                 HasPlayer(creator'[c].samplePlayers, creator[c].track.sampleLoops[i]))
             => << c, "loop" >> \in transport'.events]_vars

\* C14: from the moment dispose has been called on a Creator, whatever the
\* state of its render, its players, instruments, gain node and recorder are
\* disposed and the transport holds none of its events
C14_CancellationTeardown ==
  \A c \in Creators :
     creator[c].gain = "disposed" =>
       /\ Disposed(creator[c])
       /\ \A e \in transport.events : e[1] # c

(***************************************************************************)
(* Properties of the Tracks                                                *)
(***************************************************************************)
\* C15: every Sample Loop of a returned Track stops after it starts, has an
\* index below the size of its group, and starts and stops within the track
C15_SampleLoopInvariant ==
  \A r \in 1..Len(returned) :
     LET track == returned[r].track
     IN  \A i \in 1..Len(track.sampleLoops) :
            LET loop == track.sampleLoops[i]
            IN  /\ loop.stopTime > loop.startTime
                /\ loop.sampleGroupName \in SampleGroupNames
                /\ loop.sampleIndex \in 0..(SampleGroupSize(loop.sampleGroupName) - 1)
                /\ 0 <= loop.startTime
                /\ loop.stopTime <= 16 * track.numMeasures

\* C16: every Instrument Note of a returned Track has its onset at or after 0
\* and before the end of the track, and a velocity between 0 and 1
C16_InstrumentNoteInvariant ==
  \A r \in 1..Len(returned) :
     LET track == returned[r].track
     IN  \A i \in 1..Len(track.instrumentNotes) :
            LET note == track.instrumentNotes[i]
            IN  /\ note.time # NaN
                /\ 0 <= note.time
                /\ note.time < 16 * track.numMeasures
                /\ note.velocity \in 0..10

\* the Track returned by call i as its holder reads it now: new Track stores
\* the lists of the producer themselves, not copies of them
TrackNow(i) ==
  [returned[i].track EXCEPT !.samples = prod.samples,
                            !.sampleLoops = prod.sampleLoops,
                            !.instruments = prod.instruments,
                            !.instrumentNotes = prod.instrumentNotes]

\* C17: a Track reads now as it read when produce returned it
C17_TrackImmutability ==
  \A i \in 1..Len(returned) : TrackNow(i) = returned[i].track

\* the smallest positive integer k with length * k >= 24
SmallestRepeat(length) ==
  CHOOSE k \in 1..24 : length * k >= 24 /\ \A j \in 1..(k - 1) : length * j < 24

TrackReturned == returned[Len(returned)].track

\* C21: the numMeasures of a returned Track is the sum of the intro, main and
\* outro lengths in measures, where the intro is one measure and the outro is
\* the number of slots of its truncated pass, at most two, plus one
C21_TotalMeasureCount ==
  pstatus = "returned" =>
    LET slots == IF Len(last.chords) < 2 THEN Len(last.chords) ELSE 2
    IN  /\ TrackReturned.numMeasures
             = last.introLength + last.mainLength + last.outroLength
        /\ last.introLength = 1
        /\ last.outroLength = slots + 1

C21_Witness ==
  /\ pstatus = "returned"
  /\ Len(last.chords) = 5
  /\ last.mainLength = 25
  /\ TrackReturned.numMeasures = 29

\* the requests produceMain makes in repetition i: every repetition appends its
\* start request, its stop request and then the requests of its chords
MainRequests(i) ==
  LET perRepetition == Len(prod.drumbeatTimings) \div numberOfIterations(Len(last.chords))
  IN  [start |-> prod.drumbeatTimings[i * perRepetition + 1],
       stop |-> prod.drumbeatTimings[i * perRepetition + 2]]

\* the first measure of repetition i of the main region
RepetitionMeasure(i) == last.introLength + i * Len(last.chords)

MainPadding == IF Len(last.chords) > 8 THEN 2 ELSE 1

\* C22: in every repetition of the main region the rhythm loop is requested to
\* start p measures after the first measure of the repetition and to stop p
\* measures before its end, p being 1 up to 8 slots and 2 above
C22_PaddingEveryRepetition ==
  pstatus = "main" =>
    \A i \in 0..(numberOfIterations(Len(last.chords)) - 1) :
       /\ MainRequests(i).start
            = [isStart |-> TRUE, time |-> 16 * (RepetitionMeasure(i) + MainPadding)]
       /\ MainRequests(i).stop
            = [isStart |-> FALSE, time |-> 16 * (RepetitionMeasure(i + 1) - MainPadding)]

\* C22 as the code has it: the first repetition starts the rhythm loop p
\* measures after its first measure, every later repetition starts it at its
\* first measure, and every repetition stops it p measures before its end
C22_PaddingFirstRepetition ==
  pstatus = "main" =>
    \A i \in 0..(numberOfIterations(Len(last.chords)) - 1) :
       /\ MainRequests(i).start
            = [isStart |-> TRUE,
               time |-> 16 * (IF i = 0 THEN RepetitionMeasure(0) + MainPadding
                              ELSE RepetitionMeasure(i))]
       /\ MainRequests(i).stop
            = [isStart |-> FALSE, time |-> 16 * (RepetitionMeasure(i + 1) - MainPadding)]

C22_Witness ==
  /\ pstatus = "main"
  /\ Len(last.chords) = 9
  /\ MainRequests(0).start.time = 16 * 3
  /\ MainRequests(1).start.time = 16 * 10
  /\ MainRequests(2).stop.time = 16 * 26

(***************************************************************************)
(* Properties of the sample selection and of the melody                    *)
(***************************************************************************)
\* the places of the ambience loops among the Sample Loops of a Track
AmbienceLoops(track) ==
  { i \in 1..Len(track.sampleLoops) : track.sampleLoops[i].sampleGroupName \in {"rain", "vinyl"} }

\* C23: every returned Track has exactly one ambience loop, from 0 to half a
\* measure before numMeasures, of the rain group when valence < 0.5 and the mode
\* number is 6 and of the vinyl group otherwise
C23_AmbienceSelection ==
  \A r \in 1..Len(returned) :
     LET track == returned[r].track
     IN  /\ Cardinality(AmbienceLoops(track)) = 1
         /\ \A i \in AmbienceLoops(track) :
               /\ track.sampleLoops[i].startTime = 0
               /\ track.sampleLoops[i].stopTime = 16 * track.numMeasures - 8
               /\ track.sampleLoops[i].sampleGroupName
                    = (IF returned[r].params.valence < 5 /\ track.modeNum = 6
                       THEN "rain" ELSE "vinyl")

\* the tempos of the rhythm loops of the catalog
LoopTempos == { 100, 105, 110, 120, 130, 140 }

\* C24: selectDrumbeat returns the group of the tempo nearest to bpm, the lower
\* one of two tempos equally near, whatever else it is called with
C24_NearestTempo ==
  drumbeat # NoDrumbeat =>
    \E t \in LoopTempos :
       /\ drumbeat.group = DrumloopName(t)
       /\ \A u \in LoopTempos \ {t} :
             \/ Abs(t - drumbeat.bpm) < Abs(u - drumbeat.bpm)
             \/ Abs(t - drumbeat.bpm) = Abs(u - drumbeat.bpm) /\ t < u

C24_Witness ==
  /\ drumbeat.bpm = 115
  /\ drumbeat.energy = 9
  /\ drumbeat.group = "drumloop110"

\* the maximal runs of equal entries of a melody, as << place of the first
\* entry counted from 0, length >>
MaximalRuns(melody) ==
  { << a - 1, n >> : a \in 1..Len(melody), n \in 1..Len(melody) } \cap
  { run \in (0..Len(melody)) \X (1..Len(melody)) :
      LET a == run[1] + 1
          b == run[1] + run[2]
      IN  /\ b <= Len(melody)
          /\ \A k \in a..b : melody[k] = melody[a]
          /\ a = 1 \/ melody[a - 1] # melody[a]
          /\ b = Len(melody) \/ melody[b + 1] # melody[a] }

\* the notes of a Track on the melody instrument that begin at a time; no
\* preset gives another layer the instrument of its melody
MelodyNotesAt(r, time) ==
  LET track == returned[r].track
      instrument == selectPreset(returned[r].params.valence,
                                 returned[r].params.energy).melody.instrument
  IN  { j \in 1..Len(track.instrumentNotes) :
          /\ track.instrumentNotes[j].instrument = instrument
          /\ track.instrumentNotes[j].time = time }

\* the sixteenths of one entry of a melody: entry i begins at sixteenth 2 * i
MelodyUnit == 2

\* C25: every maximal run of n equal positive entries of the melody of a slot
\* yields a melody note that begins at the place of the first entry of the run
\* and lasts n units. Stated of the first repetition of the main region.
C25_MelodyRunLength ==
  \A r \in 1..Len(returned) :
     LET params == returned[r].params
         track == returned[r].track
     IN  selectPreset(params.valence, params.energy).melody.present =>
           \A slot \in 1..Len(params.melodies) :
              \A run \in MaximalRuns(params.melodies[slot]) :
                 params.melodies[slot][run[1] + 1] > 0 =>
                   /\ Cardinality(MelodyNotesAt(r, 16 * slot + MelodyUnit * run[1])) = 1
                   /\ \A j \in MelodyNotesAt(r, 16 * slot + MelodyUnit * run[1]) :
                         track.instrumentNotes[j].duration = MelodyUnit * run[2]

\* C26: a run of entries of a melody that are 0 or negative yields no melody
\* note: the Track has no note on the melody instrument at the place of the run.
\* Stated of the first repetition of the main region.
C26_MelodyRests ==
  \A r \in 1..Len(returned) :
     LET params == returned[r].params
     IN  selectPreset(params.valence, params.energy).melody.present =>
           \A slot \in 1..Len(params.melodies) :
              \A run \in MaximalRuns(params.melodies[slot]) :
                 params.melodies[slot][run[1] + 1] <= 0 =>
                   MelodyNotesAt(r, 16 * slot + MelodyUnit * run[1]) = {}

(***************************************************************************)
(* Properties of the transport and of the disposal                         *)
(***************************************************************************)
\* C27: while a Creator records its render, the swing of the transport is 2/3
\* when the swing flag of its Track is set and 0 otherwise
C27_SwingRatio ==
  \A c \in Creators :
     creator[c].phase \in {"record:start", "record:timer", "record:stop"} =>
       transport.swing = (IF creator[c].track.swing THEN 2 ELSE 0)

\* C28: no step writes the volume of an instrument that has been disposed, and
\* the callback of the timer does not stop a recorder that has been disposed
C28_NoUseAfterDisposal ==
  [][\A c \in Creators :
       /\ FadeRan(c) => creator[c].disposedInstruments = {}
       /\ (creator[c].phase = "record:timer" /\ creator'[c].phase = "record:stop")
          => creator[c].recorder # "disposed"]_vars

(***************************************************************************)
(* Properties of the lists of a Track                                      *)
(***************************************************************************)
\* the rhythm loops of a Track in the order of its Sample Loops
RhythmLoopsOf(track) ==
  SelectSeq(track.sampleLoops, LAMBDA l : l.sampleGroupName \notin {"rain", "vinyl"})

\* C29: the rhythm loops of a returned Track are listed in increasing start
\* time, none begins before the one listed before it has stopped, and each runs
\* from the time of a start request to the time of a stop request
C29_RhythmLoopWindows ==
  \A r \in 1..Len(returned) :
     LET loops == RhythmLoopsOf(returned[r].track)
     IN  /\ \A i \in 1..Len(loops) : \A j \in (i + 1)..Len(loops) :
               /\ loops[i].startTime < loops[j].startTime
               /\ loops[i].stopTime <= loops[j].startTime
         /\ \A i \in 1..Len(loops) :
               /\ \E k \in 1..Len(prod.drumbeatTimings) :
                     /\ prod.drumbeatTimings[k].isStart
                     /\ prod.drumbeatTimings[k].time = loops[i].startTime
               /\ \E k \in 1..Len(prod.drumbeatTimings) :
                     /\ ~prod.drumbeatTimings[k].isStart
                     /\ prod.drumbeatTimings[k].time = loops[i].stopTime

\* a list names every member once
NoDuplicates(list) == \A i \in 1..Len(list) : \A j \in 1..Len(list) : list[i] = list[j] => i = j

====
